---- MODULE Spec2Model ----
(***************************************************************************)
(* The geo ranking criterion of milli (src/milli/src/search/criteria/      *)
(* geo.rs): the pull operation Geo::next and the distance bucketer         *)
(* geo_point.                                                              *)
(*                                                                         *)
(* A RoaringBitmap is a set of document ids.  A point of the R-tree is a   *)
(* record [data, distance]: the document id and the rounded distance (in   *)
(* metres) of its position to the base point of the query, which is what   *)
(* geo_point computes from point.geom() at line 163.  The R-tree is the    *)
(* sequence of its points in the order nearest_neighbor_iter yields them.  *)
(* An Option is a sequence of length 0 (None) or 1 (Some).                 *)
(***************************************************************************)
EXTENDS Integers, Sequences, FiniteSets

VARIABLES
    \* the fields of Geo (lines 10-20)
    ascending, rtree, candidates, allowed_candidates, bucket_candidates,
    \* params.excluded_candidates
    excluded_candidates,
    \* the parent criterion: the pulls it can still answer with a result or an
    \* error, and whether it has answered None
    parentLeft, parentDone,
    \* what the last call of Geo::next returned, and the calls it made to its
    \* collaborators, in order
    outcome, log,
    \* history: the ids returned so far; the set allowed_candidates was given
    \* when the current batch was accepted and the ids returned for it since;
    \* the bucket_candidates of the latest returned result
    returnedIds, batchBase, batchEmitted, lastSnapshot,
    \* one run of geo_point in each direction on one input
    run,
    \* one parent result, the bucket_candidates it met and how it was resolved
    batch

vars ==
    << ascending, rtree, candidates, allowed_candidates, bucket_candidates,
       excluded_candidates, parentLeft, parentDone, outcome, log,
       returnedIds, batchBase, batchEmitted, lastSnapshot, run, batch >>

\* ------------------------------------------------------------------ bounds
\* document ids are 1..MaxDocId
MaxDocId == 2
\* the parent answers at most MaxBatches pulls with a result or an error
MaxBatches == 2
\* the R-tree of a Geo instance holds at most MaxPoints points
MaxPoints == 2

Docs == 1 .. MaxDocId

\* rounded distances of the points of a Geo instance: rings 1 and 2
Distances == {10, 150}

\* a run of geo_point alone has documents 1..MaxRunDocs
MaxRunDocs == 3
RunDocs == 1 .. MaxRunDocs

\* rounded distances of the points of a run of geo_point alone: rings 1, 2,
\* 8 (twice), 12 and 13
RunDistances == {10, 150, 150000, 150050, 9800000, 15000000}

\* ------------------------------------------------------------------ options
None == <<>>
Some(x) == <<x>>
IsSome(o) == o # <<>>
Unwrap(o) == o[1]
Option(S) == {None} \cup {Some(x) : x \in S}

\* ------------------------------------------------------------------ geo_point
km == 1000
usize_MIN == 0
\* usize::MAX.  TLC's integers are 32 bits wide, so the bound of the last
\* ring is the largest of them; every distance of the model lies far below.
usize_MAX == 2147483647

thickness ==
    << 100, 500, 1 * km, 10 * km, 20 * km, 50 * km, 100 * km, 200 * km,
       500 * km, 1000 * km, 3000 * km, 10000 * km, usize_MAX >>

NumRings == Len(thickness)

\* the i-th range the scan of lines 153-157 yields: last..current
ThicknessRange(i) ==
    [start |-> IF i = 1 THEN usize_MIN ELSE thickness[i - 1], end |-> thickness[i]]

\* Range::contains
contains(range, distance) == range.start <= distance /\ distance < range.end

\* find with `next` for `find`: only the range after the current one is tried
find_NextOnly(from, distance) ==
    IF from <= NumRings /\ contains(ThicknessRange(from), distance) THEN from ELSE 0

\* thickness.find(|current| current.contains(&distance)) on the iterator
\* whose next item is the range `from`: the index of the first range at or
\* after `from` that contains the distance, 0 when the iterator runs out
\* (find returns None and the unwrap of line 169 panics)
find(from, distance) ==
    LET hits == {i \in from .. NumRings : contains(ThicknessRange(i), distance)}
    IN  IF hits = {} THEN 0 ELSE CHOOSE i \in hits : \A j \in hits : i <= j

\* results.last_mut().insert(data): line 175
InsertLast(results, data) ==
    [results EXCEPT ![Len(results)] = @ \cup {data}]

\* The match of lines 164-177 on a point whose id was a candidate.  s is the
\* state of the loop: results, rings (for each bucket the index of
\* current_thickness when it was pushed), cur (the index of
\* current_thickness; the iterator `thickness` stands right after it) and
\* panic.
Classify(s, point) ==
    LET distance == point.distance
    IN  IF ~contains(ThicknessRange(s.cur), distance)
        THEN LET j == find(s.cur + 1, distance)
             IN  IF j = 0
                 THEN [s EXCEPT !.results = Append(@, {point.data}),
                                !.rings = Append(@, s.cur),
                                !.panic = TRUE]
                 ELSE [s EXCEPT !.results = Append(@, {point.data}),
                                !.rings = Append(@, j),
                                !.cur = j]
        ELSE IF s.results = <<>>
        THEN [s EXCEPT !.results = Append(@, {point.data}),
                       !.rings = Append(@, s.cur)]
        ELSE [s EXCEPT !.results = InsertLast(@, point.data)]

\* line 179: the push that follows the `if` for every point visited
PushVisited(s, point) ==
    [s EXCEPT !.results = Append(@, {point.data}), !.rings = Append(@, s.cur)]

\* lines 161-179: one turn of the loop, on a point of the enumeration
Visit(s, point, cands) ==
    LET s1 == IF point.data \in cands THEN Classify(s, point) ELSE s
    IN  IF s1.panic THEN s1 ELSE PushVisited(s1, point)

\* F(x), with x evaluated once
With(x, F(_)) == CHOOSE y \in {F(v) : v \in {x}} : TRUE

\* The loop of lines 160-183 from the i-th point of the enumeration on.
RECURSIVE BucketLoop(_, _, _, _)
BucketLoop(tree, i, cands, s) ==
    IF i > Len(tree) THEN s
    ELSE With(Visit(s, tree[i], cands),
              LAMBDA s2 :
                  IF s2.panic \/ cands \ {tree[i].data} = {} THEN s2
                  ELSE BucketLoop(tree, i + 1, cands \ {tree[i].data}, s2))

\* Buckets with the candidates the loop left over pushed as a last bucket
Buckets_FlushRest(tree, cands) ==
    LET s == BucketLoop(tree, 1, cands,
                        [results |-> <<>>, rings |-> <<>>, cur |-> 1, panic |-> FALSE])
        rest == cands \ {tree[i].data : i \in 1 .. Len(tree)}
    IN  IF s.panic \/ rest = {} THEN s
        ELSE [s EXCEPT !.results = Append(@, rest), !.rings = Append(@, s.cur)]

\* lines 135-183: the results vector geo_point has built when its loop ends
Buckets(tree, cands) ==
    BucketLoop(tree, 1, cands,
               [results |-> <<>>, rings |-> <<>>, cur |-> 1, panic |-> FALSE])

Reverse(seq) == [i \in 1 .. Len(seq) |-> seq[Len(seq) + 1 - i]]

\* Direction without the `rev` of line 188
Direction_NoReverse(results, point_ascending) == results

\* lines 185-189: the iterator handed back, as the sequence it will yield
Direction(results, point_ascending) ==
    IF point_ascending THEN results ELSE Reverse(results)

\* geo_point: [panic, buckets]
geo_point(tree, cands, point_ascending) ==
    With(Buckets(tree, cands),
         LAMBDA s :
             [panic |-> s.panic,
              buckets |-> IF s.panic THEN <<>> ELSE Direction(s.results, point_ascending)])

\* ------------------------------------------------------------------ Geo::next
\* A CriterionResult the parent may return.  A query tree is opaque: what it
\* resolves to is the resolver's answer.  The candidates are any set or
\* absent; the filter is absent or drops the last document; the parent's
\* bucket candidates are absent or all documents.
ParentResults ==
    [query_tree : Option({"qt"}),
     candidates : Option(SUBSET Docs),
     filtered_candidates : Option({Docs \ {MaxDocId}}),
     bucket_candidates : Option({Docs})]

\* Emit without the subtraction of line 74
Emit_KeepExcluded(g, excluded) ==
    LET bucket == Head(g.candidates)
    IN  [g |-> [g EXCEPT !.candidates = Tail(@),
                         !.allowed_candidates = @ \ bucket,
                         !.batchEmitted = @ \cup bucket,
                         !.log = Append(@, "candidates.next:Some")],
         done |-> TRUE,
         outcome |-> [kind |-> "some",
                      result |-> Some([query_tree |-> None,
                                       candidates |-> Some(bucket),
                                       filtered_candidates |-> None,
                                       bucket_candidates |-> Some(g.bucket_candidates)])]]

\* Emit that also adds the bucket it returns to params.excluded_candidates
Emit_ExcludesReturned(g, excluded) ==
    LET bucket == Head(g.candidates) \ excluded
    IN  [g |-> [g EXCEPT !.candidates = Tail(@),
                         !.allowed_candidates = @ \ bucket,
                         !.excluded_candidates = @ \cup bucket,
                         !.batchEmitted = @ \cup bucket,
                         !.log = Append(@, "candidates.next:Some")],
         done |-> TRUE,
         outcome |-> [kind |-> "some",
                      result |-> Some([query_tree |-> None,
                                       candidates |-> Some(bucket),
                                       filtered_candidates |-> None,
                                       bucket_candidates |-> Some(g.bucket_candidates)])]]

\* Emit without the subtraction of line 75
Emit_KeepAllowed(g, excluded) ==
    LET bucket == Head(g.candidates) \ excluded
    IN  [g |-> [g EXCEPT !.candidates = Tail(@),
                         !.batchEmitted = @ \cup bucket,
                         !.log = Append(@, "candidates.next:Some")],
         done |-> TRUE,
         outcome |-> [kind |-> "some",
                      result |-> Some([query_tree |-> None,
                                       candidates |-> Some(bucket),
                                       filtered_candidates |-> None,
                                       bucket_candidates |-> Some(g.bucket_candidates)])]]

\* Emit without the `return` of line 76: the loop goes on
Emit_NoReturn(g, excluded) ==
    LET bucket == Head(g.candidates) \ excluded
    IN  [g |-> [g EXCEPT !.candidates = Tail(@),
                         !.allowed_candidates = @ \ bucket,
                         !.batchEmitted = @ \cup bucket,
                         !.log = Append(@, "candidates.next:Some")],
         done |-> FALSE,
         outcome |-> [kind |-> "init", result |-> None]]

\* lines 73-82: the pending iterator yields a bucket.  g holds the fields a
\* call changes; the value is the fields after the call and what it returns.
Emit(g, excluded) ==
    LET bucket == Head(g.candidates) \ excluded
    IN  [g |-> [g EXCEPT !.candidates = Tail(@),
                         !.allowed_candidates = @ \ bucket,
                         !.batchEmitted = @ \cup bucket,
                         !.log = Append(@, "candidates.next:Some")],
         done |-> TRUE,
         outcome |-> [kind |-> "some",
                      result |-> Some([query_tree |-> None,
                                       candidates |-> Some(bucket),
                                       filtered_candidates |-> None,
                                       bucket_candidates |-> Some(g.bucket_candidates)])]]

\* Resolve with a failed collaborator taken for an empty answer
Resolve_SwallowError(r) ==
    IF IsSome(r.candidates)
    THEN {[err |-> FALSE, candidates |-> Unwrap(r.candidates),
           event |-> "candidates"]}
    ELSE IF IsSome(r.query_tree)
    THEN {[err |-> FALSE, candidates |-> c,
           event |-> "resolve_query_tree:Ok"] : c \in SUBSET Docs}
         \cup {[err |-> FALSE, candidates |-> {},
                event |-> "resolve_query_tree:Err"]}
    ELSE {[err |-> FALSE, candidates |-> Docs,
           event |-> "documents_ids:Ok"],
          [err |-> FALSE, candidates |-> {},
           event |-> "documents_ids:Err"]}

\* Resolve with the query tree looked at before the candidates
Resolve_QueryTreeFirst(r) ==
    IF IsSome(r.query_tree)
    THEN {[err |-> FALSE, candidates |-> c,
           event |-> "resolve_query_tree:Ok"] : c \in SUBSET Docs}
         \cup {[err |-> TRUE, candidates |-> {},
                event |-> "resolve_query_tree:Err"]}
    ELSE IF IsSome(r.candidates)
    THEN {[err |-> FALSE, candidates |-> Unwrap(r.candidates),
           event |-> "candidates"]}
    ELSE {[err |-> FALSE, candidates |-> Docs,
           event |-> "documents_ids:Ok"],
          [err |-> TRUE, candidates |-> {},
           event |-> "documents_ids:Err"]}

\* lines 90-97: the ways the match can end for the parent's result r;
\* err says that the call returns an error (the `?` of lines 93, 94 and 96)
Resolve(r) ==
    IF IsSome(r.candidates)
    THEN {[err |-> FALSE, candidates |-> Unwrap(r.candidates),
           event |-> "candidates"]}
    ELSE IF IsSome(r.query_tree)
    THEN {[err |-> FALSE, candidates |-> c,
           event |-> "resolve_query_tree:Ok"] : c \in SUBSET Docs}
         \cup {[err |-> TRUE, candidates |-> {},
                event |-> "resolve_query_tree:Err"]}
    ELSE {[err |-> FALSE, candidates |-> Docs,
           event |-> "documents_ids:Ok"],
          [err |-> TRUE, candidates |-> {},
           event |-> "documents_ids:Err"]}

\* lines 99-101
Filter(resolved, filtered_candidates) ==
    IF IsSome(filtered_candidates)
    THEN resolved \cap Unwrap(filtered_candidates)
    ELSE resolved

\* UpdateBucketCandidates with `=` for `|=`
UpdateBucketCandidates_Assign(own, parents, resolved) ==
    IF IsSome(parents) THEN Unwrap(parents) ELSE resolved

\* lines 103-106
UpdateBucketCandidates(own, parents, resolved) ==
    IF IsSome(parents) THEN own \cup Unwrap(parents) ELSE own \cup resolved

\* Pending with all the allowed candidates as one bucket when there is no R-tree
Pending_OneBucket(tree, allowed, point_ascending) ==
    IF IsSome(tree)
    THEN geo_point(Unwrap(tree), allowed, point_ascending)
    ELSE [panic |-> FALSE, buckets |-> <<allowed>>]

\* lines 112-120: the new pending iterator
Pending(tree, allowed, point_ascending) ==
    IF IsSome(tree)
    THEN geo_point(Unwrap(tree), allowed, point_ascending)
    ELSE [panic |-> FALSE, buckets |-> <<>>]

\* what the parent can answer to a pull
ParentAnswers(g) ==
    {[kind |-> "none"]}
    \cup (IF g.parentDone \/ g.parentLeft = 0 THEN {}
          ELSE {[kind |-> "err"]} \cup {[kind |-> "some", result |-> r] : r \in ParentResults})

\* a call's end: the fields after it and what it returns
Return(g, kind) == [done |-> TRUE, g |-> g, outcome |-> [kind |-> kind, result |-> None]]

\* the end of one iteration of the loop that does not return
Continue(g) == [done |-> FALSE, g |-> g, outcome |-> [kind |-> "init", result |-> None]]

\* Accept with lines 103-106 moved after line 111: a discarded batch adds
\* nothing, and the excluded ids are left out of what an accepted one adds
Accept_UpdateAfterExclusion(g, r, resolved, tree, point_ascending, excluded) ==
    LET cands == Filter(resolved, r.filtered_candidates)
        allowed == cands \ excluded
        g2 == [g EXCEPT !.bucket_candidates =
                            UpdateBucketCandidates(@, r.bucket_candidates, allowed),
                        !.allowed_candidates = allowed,
                        !.batchBase = allowed,
                        !.batchEmitted = {},
                        !.log = IF IsSome(tree) THEN Append(@, "geo_point") ELSE @]
    IN  IF cands = {} THEN Continue(g)
        ELSE With(Pending(tree, allowed, point_ascending),
                  LAMBDA pending :
                      IF pending.panic THEN Return(g2, "panic")
                      ELSE Continue([g2 EXCEPT !.candidates = pending.buckets]))

\* lines 98-121, after the match of lines 90-97 ended with `resolved` (no
\* error): the batch is dropped (line 109) or its buckets become the pending
\* iterator; either way the loop goes on
Accept(g, r, resolved, tree, point_ascending, excluded) ==
    LET cands == Filter(resolved, r.filtered_candidates)
        g1 == [g EXCEPT !.bucket_candidates =
                            UpdateBucketCandidates(@, r.bucket_candidates, cands)]
        allowed == cands \ excluded
        g2 == [g1 EXCEPT !.allowed_candidates = allowed,
                         !.batchBase = allowed,
                         !.batchEmitted = {},
                         !.log = IF IsSome(tree) THEN Append(@, "geo_point") ELSE @]
    IN  IF cands = {} THEN Continue(g1)
        ELSE With(Pending(tree, allowed, point_ascending),
                  LAMBDA pending :
                      IF pending.panic THEN Return(g2, "panic")
                      ELSE Continue([g2 EXCEPT !.candidates = pending.buckets]))

\* Pull with the parent's error taken for its exhaustion
Pull_ErrAsNone(g, a, tree, point_ascending, excluded) ==
    IF a.kind = "none"
    THEN {Return([g EXCEPT !.parentDone = TRUE, !.log = Append(@, "parent.next:None")],
                 "none")}
    ELSE IF a.kind = "err"
    THEN {Return([g EXCEPT !.parentLeft = @ - 1, !.log = Append(@, "parent.next:Err")],
                 "none")}
    ELSE LET g1 == [g EXCEPT !.parentLeft = @ - 1, !.log = Append(@, "parent.next:Some")]
         IN  { IF x.err
               THEN Return([g1 EXCEPT !.log = Append(@, x.event)], "err")
               ELSE Accept([g1 EXCEPT !.log = Append(@, x.event)], a.result,
                           x.candidates, tree, point_ascending, excluded)
             : x \in Resolve(a.result) }

\* lines 83-123: the pending iterator is exhausted and the parent answers a
Pull(g, a, tree, point_ascending, excluded) ==
    IF a.kind = "none"
    THEN {Return([g EXCEPT !.parentDone = TRUE, !.log = Append(@, "parent.next:None")],
                 "none")}
    ELSE IF a.kind = "err"
    THEN {Return([g EXCEPT !.parentLeft = @ - 1, !.log = Append(@, "parent.next:Err")],
                 "err")}
    ELSE LET g1 == [g EXCEPT !.parentLeft = @ - 1, !.log = Append(@, "parent.next:Some")]
         IN  { IF x.err
               THEN Return([g1 EXCEPT !.log = Append(@, x.event)], "err")
               ELSE Accept([g1 EXCEPT !.log = Append(@, x.event)], a.result,
                           x.candidates, tree, point_ascending, excluded)
             : x \in Resolve(a.result) }

\* one iteration of the loop of lines 71-125: every way it can end
Iteration(g, tree, point_ascending, excluded) ==
    IF g.candidates # <<>> THEN {Emit(g, excluded)}
    ELSE UNION { Pull([g EXCEPT !.log = Append(@, "candidates.next:None")],
                      a, tree, point_ascending, excluded) : a \in ParentAnswers(g) }

\* The loop of lines 71-125 from the fields g on: every way the call can
\* end, as [g, outcome].
RECURSIVE Loop(_, _, _, _)
Loop(g, tree, point_ascending, excluded) ==
    UNION { IF e.done THEN {e} ELSE Loop(e.g, tree, point_ascending, excluded)
          : e \in Iteration(g, tree, point_ascending, excluded) }

\* ------------------------------------------------------------------ the index
Points == [data : Docs, distance : Distances]

\* the enumerations of at most n points; a document has one position
Enumerations(points, n) ==
    {e \in UNION {[1 .. k -> points] : k \in 0 .. n} :
        \A i, j \in 1 .. Len(e) : i # j => e[i].data # e[j].data}

\* nearest_neighbor_iter yields the points in non-decreasing distance
NonDecreasing(e) ==
    \A i, j \in 1 .. Len(e) : i < j => e[i].distance <= e[j].distance

\* index.geo_rtree: None, or the R-tree as the base point enumerates it
GeoRtrees ==
    Option({e \in Enumerations(Points, MaxPoints) : NonDecreasing(e)})

\* index.geo_faceted_documents_ids: the documents that have a position
geo_faceted_documents_ids(tree) ==
    IF IsSome(tree) THEN {Unwrap(tree)[i].data : i \in 1 .. Len(Unwrap(tree))} ELSE {}

NoRun == [rtree |-> <<>>, candidates |-> {}, asc |-> None, desc |-> None, rings |-> <<>>]

NoBatch ==
    [input |-> [query_tree |-> None, candidates |-> None,
                filtered_candidates |-> None, bucket_candidates |-> None],
     own |-> {}, answer |-> None]

\* Geo::new (lines 41-64), with a fresh parent and fresh parameters
Init ==
    /\ ascending \in BOOLEAN
    /\ rtree \in GeoRtrees
    /\ candidates = <<>>
    /\ allowed_candidates = geo_faceted_documents_ids(rtree)
    /\ bucket_candidates = {}
    /\ excluded_candidates = {}
    /\ parentLeft = MaxBatches
    /\ parentDone = FALSE
    /\ outcome = [kind |-> "init", result |-> None]
    /\ log = <<>>
    /\ returnedIds = {}
    /\ batchBase = allowed_candidates
    /\ batchEmitted = {}
    /\ lastSnapshot = None
    /\ run = NoRun
    /\ batch = NoBatch

\* the fields of self and of params a call can write
Self ==
    [candidates |-> candidates,
     allowed_candidates |-> allowed_candidates,
     bucket_candidates |-> bucket_candidates,
     excluded_candidates |-> excluded_candidates,
     parentLeft |-> parentLeft,
     parentDone |-> parentDone,
     batchBase |-> batchBase,
     batchEmitted |-> batchEmitted,
     log |-> <<>>]

\* one call of Geo::next (lines 68-126)
GeoNext ==
    /\ outcome.kind # "panic"
    /\ \E e \in Loop(Self, rtree, ascending, excluded_candidates) :
        /\ candidates' = e.g.candidates
        /\ allowed_candidates' = e.g.allowed_candidates
        /\ bucket_candidates' = e.g.bucket_candidates
        /\ excluded_candidates' = e.g.excluded_candidates
        /\ parentLeft' = e.g.parentLeft
        /\ parentDone' = e.g.parentDone
        /\ batchBase' = e.g.batchBase
        /\ batchEmitted' = e.g.batchEmitted
        /\ log' = e.g.log
        /\ outcome' = e.outcome
        /\ returnedIds' =
              IF e.outcome.kind = "some"
              THEN returnedIds \cup Unwrap(Unwrap(e.outcome.result).candidates)
              ELSE returnedIds
        /\ lastSnapshot' =
              IF e.outcome.kind = "some"
              THEN Unwrap(e.outcome.result).bucket_candidates
              ELSE lastSnapshot
    /\ UNCHANGED <<ascending, rtree, run, batch>>

\* the caller adds the candidates of the result it was returned to
\* params.excluded_candidates
CallerExclude ==
    /\ outcome.kind = "some"
    /\ ~(Unwrap(Unwrap(outcome.result).candidates) \subseteq excluded_candidates)
    /\ excluded_candidates' =
          excluded_candidates \cup Unwrap(Unwrap(outcome.result).candidates)
    /\ UNCHANGED <<ascending, rtree, candidates, allowed_candidates, bucket_candidates,
                   parentLeft, parentDone, outcome, log, returnedIds, batchBase,
                   batchEmitted, lastSnapshot, run, batch>>

Next == GeoNext \/ CallerExclude

Spec == Init /\ [][Next]_vars

\* ------------------------------------------------------------------ geo_point alone
\* One input of geo_point, run once in each direction.  The enumeration is
\* in any order; `rings` keeps, for the buckets of the ascending run, the
\* ring each was pushed in.
RunPoints == [data : RunDocs, distance : RunDistances]

\* the scenario of five documents at 10 m, 150 m, 150 km, 150.05 km and 9800 km
ScenarioRtree ==
    << [data |-> 1, distance |-> 10], [data |-> 2, distance |-> 150],
       [data |-> 3, distance |-> 150000], [data |-> 4, distance |-> 150050],
       [data |-> 5, distance |-> 9800000] >>

\* seven documents, one in each of the first seven rings
SevenRingsRtree ==
    << [data |-> 1, distance |-> 10], [data |-> 2, distance |-> 150],
       [data |-> 3, distance |-> 600], [data |-> 4, distance |-> 5000],
       [data |-> 5, distance |-> 15000], [data |-> 6, distance |-> 30000],
       [data |-> 7, distance |-> 70000] >>

InitRun ==
    /\ \/ /\ run \in [rtree : Enumerations(RunPoints, MaxRunDocs),
                      candidates : SUBSET RunDocs,
                      asc : {None}, desc : {None}, rings : {<<>>}]
       \/ /\ run = [rtree |-> ScenarioRtree, candidates |-> 1 .. 5,
                    asc |-> None, desc |-> None, rings |-> <<>>]
       \/ /\ run = [rtree |-> SevenRingsRtree, candidates |-> 1 .. 7,
                    asc |-> None, desc |-> None, rings |-> <<>>]
    /\ ascending = TRUE
    /\ rtree = None
    /\ candidates = <<>>
    /\ allowed_candidates = {}
    /\ bucket_candidates = {}
    /\ excluded_candidates = {}
    /\ parentLeft = 0
    /\ parentDone = FALSE
    /\ outcome = [kind |-> "init", result |-> None]
    /\ log = <<>>
    /\ returnedIds = {}
    /\ batchBase = {}
    /\ batchEmitted = {}
    /\ lastSnapshot = None
    /\ batch = NoBatch

GeoUnchanged ==
    UNCHANGED << ascending, rtree, candidates, allowed_candidates, bucket_candidates,
                 excluded_candidates, parentLeft, parentDone, outcome, log,
                 returnedIds, batchBase, batchEmitted, lastSnapshot, batch >>

RunAscending ==
    /\ run.asc = None
    /\ run' = [run EXCEPT !.asc = Some(geo_point(run.rtree, run.candidates, TRUE)),
                          !.rings = Buckets(run.rtree, run.candidates).rings]
    /\ GeoUnchanged

RunDescending ==
    /\ run.desc = None
    /\ run' = [run EXCEPT !.desc = Some(geo_point(run.rtree, run.candidates, FALSE))]
    /\ GeoUnchanged

NextRun == RunAscending \/ RunDescending

SpecRun == InitRun /\ [][NextRun]_vars

\* the same with the repeated calls every caller of the chain makes
FairSpec == Spec /\ WF_vars(GeoNext)

\* ------------------------------------------------------------------ one batch
\* One parent result of any shape, pulled by an instance with an empty
\* pending iterator, any bucket_candidates and any excluded ids: lines
\* 84-121 up to the end of the loop's iteration.
BatchResults ==
    [query_tree : Option({"qt"}),
     candidates : Option(SUBSET Docs),
     filtered_candidates : Option(SUBSET Docs),
     bucket_candidates : Option(SUBSET Docs)]

BatchRtree == Some(<< [data |-> 1, distance |-> 10] >>)

InitBatch ==
    /\ batch \in [input : BatchResults, own : SUBSET Docs, answer : {None}]
    /\ ascending = TRUE
    /\ rtree = BatchRtree
    /\ candidates = <<>>
    /\ allowed_candidates = geo_faceted_documents_ids(rtree)
    /\ bucket_candidates = batch.own
    /\ excluded_candidates \in SUBSET Docs
    /\ parentLeft = 1
    /\ parentDone = FALSE
    /\ outcome = [kind |-> "init", result |-> None]
    /\ log = <<>>
    /\ returnedIds = {}
    /\ batchBase = allowed_candidates
    /\ batchEmitted = {}
    /\ lastSnapshot = None
    /\ run = NoRun

\* lines 83-121 for the parent's answer Some(batch.input): answer keeps the
\* way the match of lines 90-97 ended
PullBatch ==
    /\ batch.answer = None
    /\ \E x \in Resolve(batch.input) :
        LET g1 == [Self EXCEPT !.parentLeft = @ - 1,
                               !.log = << "candidates.next:None", "parent.next:Some",
                                          x.event >>]
            e == IF x.err THEN Return(g1, "err")
                 ELSE Accept(g1, batch.input, x.candidates, rtree, ascending,
                             excluded_candidates)
        IN  /\ candidates' = e.g.candidates
            /\ allowed_candidates' = e.g.allowed_candidates
            /\ bucket_candidates' = e.g.bucket_candidates
            /\ excluded_candidates' = e.g.excluded_candidates
            /\ parentLeft' = e.g.parentLeft
            /\ parentDone' = e.g.parentDone
            /\ batchBase' = e.g.batchBase
            /\ batchEmitted' = e.g.batchEmitted
            /\ log' = e.g.log
            /\ outcome' = e.outcome
            /\ batch' = [batch EXCEPT !.answer = Some(x)]
    /\ UNCHANGED <<ascending, rtree, returnedIds, lastSnapshot, run>>

NextBatch == PullBatch

SpecBatch == InitBatch /\ [][NextBatch]_vars

\* ------------------------------------------------------------------ properties
\* the rounded distance of the point of document id in an enumeration
DistanceOf(tree, id) ==
    tree[CHOOSE i \in 1 .. Len(tree) : tree[i].data = id].distance

\* the candidates the enumeration locates
Located(tree, cands) == {tree[i].data : i \in 1 .. Len(tree)} \cap cands

\* the ring of the schedule a distance lies in
RingOf(distance) == find(1, distance)

RingMembers(tree, cands, ring) ==
    {id \in Located(tree, cands) : RingOf(DistanceOf(tree, id)) = ring}

OccupiedRings(tree, cands) ==
    {ring \in 1 .. NumRings : RingMembers(tree, cands, ring) # {}}

\* the elements of a set of integers in increasing order
Ascending(S) ==
    [i \in 1 .. Cardinality(S) |->
        CHOOSE x \in S : Cardinality({y \in S : y < x}) = i - 1]

\* one bucket per occupied ring, by ring
RingBuckets(tree, cands) ==
    LET rings == Ascending(OccupiedRings(tree, cands))
    IN  [i \in 1 .. Len(rings) |-> RingMembers(tree, cands, rings[i])]

ReturnedCandidates(o) == Unwrap(Unwrap(o.result).candidates)

\* C1: with a spatial index, the ids returned for a batch all lie in the
\* resolved set minus the excluded ids as computed when the batch was
\* accepted, and once the batch's buckets are used up (the next call pulls
\* the parent and discards the batch) the ids returned for it together with
\* what is left in allowed_candidates are exactly that set.
C1_Partition ==
    IsSome(rtree) =>
        /\ batchEmitted \subseteq batchBase
        /\ (candidates = <<>> => batchEmitted \cup allowed_candidates = batchBase)

\* C2: the buckets of one run of geo_point are pairwise disjoint.
C2_BucketsDisjoint ==
    (IsSome(run.asc) /\ ~Unwrap(run.asc).panic) =>
        LET buckets == Unwrap(run.asc).buckets
        IN  \A i, j \in 1 .. Len(buckets) : i # j => buckets[i] \cap buckets[j] = {}

\* C3: when the caller has added every id it was returned to the excluded
\* ids before it calls again, the call returns no id that was returned
\* before.  (A step that leaves the excluded ids alone is a call.)
C3_NeverReturnedAgain ==
    [][ ( /\ excluded_candidates' = excluded_candidates
          /\ outcome'.kind = "some"
          /\ returnedIds \subseteq excluded_candidates )
        => ReturnedCandidates(outcome') \cap returnedIds = {} ]_vars

\* C3's case: after ids were returned and excluded, a later bucket that held
\* only such ids was returned empty.
C3_Witness ==
    /\ outcome.kind = "some"
    /\ returnedIds # {}
    /\ returnedIds \subseteq excluded_candidates
    /\ ReturnedCandidates(outcome) = {}
    /\ batchEmitted # {}

\* C4: for an enumeration in non-decreasing distance, every id of a bucket
\* of the ascending run has a rounded distance at most the lower bound of
\* the ring of every later bucket.
C4_AscendingOrder ==
    (IsSome(run.asc) /\ ~Unwrap(run.asc).panic /\ NonDecreasing(run.rtree)) =>
        LET buckets == Unwrap(run.asc).buckets
        IN  \A i, j \in 1 .. Len(buckets) :
                i < j => \A id \in buckets[i] :
                    DistanceOf(run.rtree, id) <= ThicknessRange(run.rings[j]).start

\* C5: for an enumeration in non-decreasing distance, the ascending run
\* returns one bucket per ring that holds a located candidate, by ring, each
\* with exactly the located candidates of its ring.
C5_RingGrouping ==
    (IsSome(run.asc) /\ NonDecreasing(run.rtree)) =>
        /\ ~Unwrap(run.asc).panic
        /\ Unwrap(run.asc).buckets = RingBuckets(run.rtree, run.candidates)

\* C6: on the same input, the descending run returns the buckets of the
\* ascending run in the reverse order (and fails when it fails).
C6_Symmetry ==
    (IsSome(run.asc) /\ IsSome(run.desc)) =>
        /\ Unwrap(run.desc).panic = Unwrap(run.asc).panic
        /\ Unwrap(run.desc).buckets = Reverse(Unwrap(run.asc).buckets)

\* C6's case: both runs done on an input whose buckets do not read the same
\* in both directions.
C6_Witness ==
    /\ IsSome(run.asc)
    /\ IsSome(run.desc)
    /\ Len(Unwrap(run.asc).buckets) >= 3
    /\ Unwrap(run.asc).buckets # Reverse(Unwrap(run.asc).buckets)

\* C7: without a spatial index no call returns a result: the pending
\* iterator stays empty, no id is ever returned, and a call ends with None
\* or an error.
C7_EmptyIndex ==
    rtree = None =>
        /\ candidates = <<>>
        /\ returnedIds = {}
        /\ outcome.kind \in {"init", "none", "err"}

Count(seq, x) == Cardinality({i \in 1 .. Len(seq) : seq[i] = x})

\* C7's case: without a spatial index, one call pulled two batches, accepted
\* a non-empty one and returned None when the parent was exhausted.
C7_Witness ==
    /\ rtree = None
    /\ outcome.kind = "none"
    /\ Count(log, "parent.next:Some") = 2
    /\ allowed_candidates # {}

\* C8: bucket_candidates never loses an id, and the bucket_candidates of a
\* returned result holds those of the result returned before it.
C8_BucketCandidatesGrow ==
    [][ /\ bucket_candidates \subseteq bucket_candidates'
        /\ (IsSome(lastSnapshot) =>
               /\ IsSome(lastSnapshot')
               /\ Unwrap(lastSnapshot) \subseteq Unwrap(lastSnapshot')) ]_vars

\* C8's case: a result was returned with some bucket candidates, and
\* bucket_candidates has grown since.
C8_Witness ==
    /\ IsSome(lastSnapshot)
    /\ Unwrap(lastSnapshot) # {}
    /\ Unwrap(lastSnapshot) \subseteq bucket_candidates
    /\ Unwrap(lastSnapshot) # bucket_candidates

\* C9: a call returns None only with the pending iterator empty and the
\* parent having just answered None; after that every call returns None;
\* and calls repeated often enough do return None.
C9_Exhaustion ==
    /\ [](outcome.kind = "none" =>
            /\ candidates = <<>>
            /\ parentDone
            /\ log[Len(log)] = "parent.next:None")
    /\ [][outcome.kind = "none" => outcome'.kind = "none"]_vars
    /\ <>(outcome.kind = "none")

\* C9's case: None was returned after a bucket of the last batch.
C9_Witness ==
    /\ outcome.kind = "none"
    /\ parentLeft = 0
    /\ batchEmitted # {}

ErrEvents == {"parent.next:Err", "resolve_query_tree:Err", "documents_ids:Err"}

\* C10: a failure of the parent, the resolver or the id domain is the last
\* thing of its call, and the call returns the error.
C10_ErrorPropagation ==
    \A i \in 1 .. Len(log) :
        log[i] \in ErrEvents => i = Len(log) /\ outcome.kind = "err"

\* C10's case: the resolver failed on the second batch a call pulled.
C10_Witness ==
    /\ outcome.kind = "err"
    /\ log[Len(log)] = "resolve_query_tree:Err"
    /\ Count(log, "parent.next:Some") = 2

PullEvents == {"parent.next:None", "parent.next:Err", "parent.next:Some"}

\* the positions of the log of the last call that hold an event of a set
Positions(events) == {i \in 1 .. Len(log) : log[i] \in events}

\* C11 as stated: a call that returns a pending bucket pulls nothing, and
\* any call pulls the parent at most once and runs geo_point at most once.
C11_OnePullOneRun ==
    /\ (log # <<>> /\ log[1] = "candidates.next:Some") => Len(log) = 1
    /\ Cardinality(Positions(PullEvents)) <= 1
    /\ Cardinality(Positions({"geo_point"})) <= 1

\* C11 amended: a call that finds a pending bucket returns it without
\* pulling the parent; otherwise it pulls the parent until a batch yields a
\* bucket or the parent ends or fails: every pull but the last was answered
\* with a batch, geo_point runs at most once per batch pulled (right after
\* the batch was resolved), and the call returns the first bucket of the
\* first run that yields one without a further pull.
C11_BoundedWork ==
    /\ (log # <<>> /\ log[1] = "candidates.next:Some") => Len(log) = 1
    /\ \A i, j \in Positions(PullEvents) : i < j => log[i] = "parent.next:Some"
    /\ \A i \in Positions({"geo_point"}) : i >= 3 /\ log[i - 2] = "parent.next:Some"
    /\ \A i \in Positions(PullEvents) : i >= 2 /\ log[i - 1] = "candidates.next:None"
    /\ \A i \in Positions({"candidates.next:Some"}) : i = Len(log)
    /\ (outcome.kind = "some" /\ Len(log) > 1) => log[Len(log) - 1] = "geo_point"

\* C11's case: a call discarded a first batch, pulled a second one, ran
\* geo_point on it and returned its first bucket.
C11_Witness ==
    /\ outcome.kind = "some"
    /\ Count(log, "parent.next:Some") = 2
    /\ Count(log, "geo_point") = 1

\* C12: one run of geo_point returns at most as many buckets as the
\* schedule has rings (13), whatever the candidates and the enumeration.
C12_AtMostThirteenBuckets ==
    (IsSome(run.asc) /\ ~Unwrap(run.asc).panic) =>
        Len(Unwrap(run.asc).buckets) <= NumRings

\* C13: when the caller has added every id it was returned to the excluded
\* ids before it calls again, a call that returns a result returns a
\* non-empty candidate set.  (A step that leaves the excluded ids alone is a
\* call.)
C13_NonEmptyBuckets ==
    [][ ( /\ excluded_candidates' = excluded_candidates
          /\ outcome'.kind = "some"
          /\ returnedIds \subseteq excluded_candidates )
        => ReturnedCandidates(outcome') # {} ]_vars

\* C14: every id of every bucket one run of geo_point returns is one of the
\* candidates the run was given (a point that is no candidate adds to no
\* bucket).
C14_OnlyCandidatesBucketed ==
    (IsSome(run.asc) /\ ~Unwrap(run.asc).panic) =>
        LET buckets == Unwrap(run.asc).buckets
        IN  \A i \in 1 .. Len(buckets) : buckets[i] \subseteq run.candidates

\* C15: for an enumeration in non-decreasing distance the run of geo_point
\* does not fail on the ring lookup; the ring cursor never moves back from
\* one bucket to the next, and every located candidate lies in a bucket
\* whose ring contains its rounded distance.
C15_RingLookupSucceeds ==
    (IsSome(run.asc) /\ NonDecreasing(run.rtree)) =>
        LET buckets == Unwrap(run.asc).buckets
        IN  /\ ~Unwrap(run.asc).panic
            /\ Len(run.rings) = Len(buckets)
            /\ \A i, j \in 1 .. Len(run.rings) : i < j => run.rings[i] <= run.rings[j]
            /\ \A id \in Located(run.rtree, run.candidates) :
                   \E j \in 1 .. Len(buckets) :
                       /\ id \in buckets[j]
                       /\ contains(ThicknessRange(run.rings[j]),
                                   DistanceOf(run.rtree, id))

\* C15's case: the cursor left the first ring, skipped rings on a later
\* lookup and ended in the last, unbounded ring.
C15_Witness ==
    /\ IsSome(run.asc)
    /\ NonDecreasing(run.rtree)
    /\ ~Unwrap(run.asc).panic
    /\ Len(run.rings) >= 3
    /\ run.rings[1] = 2
    /\ run.rings[Len(run.rings)] = NumRings

\* the set lines 90-101 resolve the batch to, when answer is the way the
\* resolver or the id domain answered
ExpectedResolved ==
    LET r == batch.input
        base == IF IsSome(r.candidates) THEN Unwrap(r.candidates)
                ELSE IF IsSome(r.query_tree) THEN Unwrap(batch.answer).candidates
                ELSE Docs
    IN  IF IsSome(r.filtered_candidates)
        THEN base \cap Unwrap(r.filtered_candidates)
        ELSE base

\* C16: a parent result is resolved to its candidates when it has some (its
\* query tree is then not resolved), else to what the resolver answers for
\* its query tree when it has one, else to all document ids; the set is
\* intersected with the result's filtered candidates when it has some.  An
\* empty resolved set discards the batch; otherwise allowed_candidates
\* becomes the resolved set minus the excluded ids.
C16_CandidateResolution ==
    IsSome(batch.answer) =>
        LET r == batch.input
            x == Unwrap(batch.answer)
        IN  /\ x.event \in (IF IsSome(r.candidates) THEN {"candidates"}
                            ELSE IF IsSome(r.query_tree)
                            THEN {"resolve_query_tree:Ok", "resolve_query_tree:Err"}
                            ELSE {"documents_ids:Ok", "documents_ids:Err"})
            /\ x.event = "documents_ids:Ok" => x.candidates = Docs
            /\ IsSome(r.candidates) => ~x.err
            /\ ~x.err =>
                  IF ExpectedResolved = {}
                  THEN /\ allowed_candidates = geo_faceted_documents_ids(rtree)
                       /\ Count(log, "geo_point") = 0
                  ELSE /\ allowed_candidates = ExpectedResolved \ excluded_candidates
                       /\ batchBase = allowed_candidates
                       /\ Count(log, "geo_point") = 1

\* C16's case: a result with candidates, a query tree and filtered
\* candidates was resolved to a non-empty set smaller than its candidates.
C16_Witness ==
    /\ IsSome(batch.answer)
    /\ IsSome(batch.input.candidates)
    /\ IsSome(batch.input.query_tree)
    /\ IsSome(batch.input.filtered_candidates)
    /\ excluded_candidates = {}
    /\ Count(log, "geo_point") = 1
    /\ allowed_candidates # Unwrap(batch.input.candidates)
    /\ allowed_candidates \subseteq Unwrap(batch.input.candidates)

\* what a call of Geo::next can change besides the excluded ids
CallState ==
    << candidates, allowed_candidates, bucket_candidates, parentLeft, parentDone,
       outcome, log, returnedIds, batchBase, batchEmitted, lastSnapshot >>

\* C17: a call that finds a bucket in the pending iterator returns it minus
\* the excluded ids, with a copy of bucket_candidates and neither query tree
\* nor filtered candidates; it takes the returned ids out of
\* allowed_candidates, moves the iterator on by one bucket, leaves
\* bucket_candidates alone and does not pull the parent.
C17_EmissionStep ==
    [][ (candidates # <<>> /\ CallState' # CallState) =>
            /\ outcome' =
                  [kind |-> "some",
                   result |-> Some([query_tree |-> None,
                                    candidates |->
                                        Some(Head(candidates) \ excluded_candidates),
                                    filtered_candidates |-> None,
                                    bucket_candidates |-> Some(bucket_candidates)])]
            /\ allowed_candidates' =
                  allowed_candidates \ (Head(candidates) \ excluded_candidates)
            /\ candidates' = Tail(candidates)
            /\ bucket_candidates' = bucket_candidates
            /\ log' = << "candidates.next:Some" >>
            /\ parentLeft' = parentLeft
            /\ parentDone' = parentDone ]_vars

\* C17's case: with some ids excluded, a call returned a non-empty bucket
\* from the pending iterator without pulling, and buckets are left.
C17_Witness ==
    /\ outcome.kind = "some"
    /\ log = << "candidates.next:Some" >>
    /\ excluded_candidates # {}
    /\ ReturnedCandidates(outcome) # {}
    /\ candidates # <<>>

\* C18: a parent result that was pulled and resolved, also one whose
\* resolved set is empty and which is discarded, leaves bucket_candidates
\* as it was united with the result's bucket candidates when it has some,
\* and otherwise united with the resolved set, the excluded ids included.
C18_BucketCandidatesUpdate ==
    (IsSome(batch.answer) /\ ~Unwrap(batch.answer).err) =>
        bucket_candidates =
            batch.own \cup (IF IsSome(batch.input.bucket_candidates)
                            THEN Unwrap(batch.input.bucket_candidates)
                            ELSE ExpectedResolved)

\* C18's case: a result without bucket candidates added an excluded id of
\* its resolved set to bucket_candidates.
C18_Witness ==
    /\ IsSome(batch.answer)
    /\ ~Unwrap(batch.answer).err
    /\ batch.input.bucket_candidates = None
    /\ batch.own # {}
    /\ (bucket_candidates \ batch.own) \cap excluded_candidates # {}

\* C19: a call of Geo::next leaves params.excluded_candidates as it found
\* it (the parent of the model does not write it either).
C19_ExcludedUntouched ==
    [][CallState' # CallState => excluded_candidates' = excluded_candidates]_vars

\* C19's case: calls returned buckets, the caller excluded each of them, and
\* the calls went on to the end of the parent with exactly those ids
\* excluded.
C19_Witness ==
    /\ outcome.kind = "none"
    /\ excluded_candidates # {}
    /\ excluded_candidates = returnedIds
    /\ Count(log, "parent.next:Some") >= 1

\* the ids of the current batch that have no point in the R-tree
Unlocated ==
    IF IsSome(rtree) THEN batchBase \ Located(Unwrap(rtree), batchBase) ELSE batchBase

\* C20: an id of a batch that has no point in the R-tree is in no result
\* returned for the batch and stays in allowed_candidates as long as no
\* later batch is accepted (lines 111-112 then overwrite allowed_candidates
\* and the pending iterator); no id without a point is ever returned.
C20_UnlocatedDropped ==
    /\ Unlocated \subseteq allowed_candidates
    /\ Unlocated \cap batchEmitted = {}
    /\ returnedIds \subseteq geo_faceted_documents_ids(rtree)

\* C20's case: the buckets of a batch were returned and the parent ended
\* with an id of the batch that has no point left in allowed_candidates.
C20_Witness ==
    /\ IsSome(rtree)
    /\ outcome.kind = "none"
    /\ batchEmitted # {}
    /\ Unlocated # {}
    /\ Unlocated \subseteq allowed_candidates

====
